---- MODULE Spec2Model ----
(***************************************************************************)
(* A model of zipline/finance/ledger.py: the PositionTracker (position     *)
(* book) and the Ledger built on it.                                       *)
(*                                                                         *)
(* Python dicts are functions whose DOMAIN is the set of keys; an          *)
(* OrderedDict is a sequence of records in key order; floats are exact     *)
(* rationals <<numerator, denominator>>; a raised exception ends the       *)
(* handler where it is raised, keeps the assignments made before it and    *)
(* is recorded in last.err.                                                *)
(***************************************************************************)
EXTENDS Integers, Sequences, FiniteSets, TLC

VARIABLES
    positions,                \* PositionTracker.positions: asset -> Position
    unpaid_dividends,         \* PositionTracker._unpaid_dividends: pay_date -> list
    unpaid_stock_dividends,   \* PositionTracker._unpaid_stock_dividends
    dirty_stats,              \* PositionTracker._dirty_stats
    stats_cache,              \* PositionTracker._stats
    dirty_portfolio,          \* Ledger.__dirty_portfolio
    dirty_account,            \* Ledger._dirty_account
    portfolio_dirty_attr,     \* the attribute Ledger._portfolio_dirty (line 497)
    portfolio,                \* Ledger._portfolio
    payout_last_sale_prices,  \* Ledger._payout_last_sale_prices
    processed_transactions,   \* Ledger._processed_transactions: dt -> list
    orders_by_modified,       \* Ledger._orders_by_modified: dt -> OrderedDict
    orders_by_id,             \* Ledger._orders_by_id: OrderedDict
    previous_total_returns,   \* Ledger._previous_total_returns
    daily_returns,            \* Ledger.daily_returns
    account,                  \* Ledger._account
    account_overrides,        \* Ledger._account_overrides
    last,                     \* the operation just completed, its inputs and result
    hist,                     \* what has been submitted so far (accumulated inputs)
    steps                     \* number of operations performed

vars == <<positions, unpaid_dividends, unpaid_stock_dividends, dirty_stats,
          stats_cache, dirty_portfolio, dirty_account, portfolio_dirty_attr,
          portfolio, payout_last_sale_prices, processed_transactions,
          orders_by_modified, orders_by_id, previous_total_returns,
          daily_returns, account, account_overrides, last, hist, steps>>

trackerVars == <<positions, unpaid_dividends, unpaid_stock_dividends,
                 dirty_stats, stats_cache>>

journalVars == <<processed_transactions, orders_by_modified, orders_by_id>>

returnsVars == <<previous_total_returns, daily_returns>>

accountVars == <<account, account_overrides>>

----------------------------------------------------------------------------
(* Bounds of the model *)

MaxSteps == 4
MaxBookSteps == 4
MaxDividendSteps == 4
MaxTxnSteps == 4
MaxOrderSteps == 4
MaxAccountSteps == 4
MaxReturnSteps == 4
MaxJournalSteps == 4
MaxPayoutSteps == 4
MaxSplitSteps == 4
MaxFlagSteps == 4

----------------------------------------------------------------------------
(* Inputs *)

Equities == {"A", "B"}
Futures == {"F"}
Assets == Equities \cup Futures

\* isinstance(asset, Future)
IsFuture(asset) == asset \in Futures

\* asset.multiplier of a Future
multiplier == [a \in Futures |-> 5]

\* execution and spot prices the price source can report per asset
PriceLow == [a \in Assets |-> IF IsFuture(a) THEN 50 ELSE 10]
PriceHigh == [a \in Assets |-> IF IsFuture(a) THEN 55 ELSE 12]
Prices == [a \in Assets |-> {PriceLow[a], PriceHigh[a]}]

\* An optional value is a sequence: <<>> when absent, <<v>> when present
None == <<>>
Some(v) == <<v>>

\* np.nan: the price source has no price
NaN == None

TxnAmounts == {-2, -1, 1, 2}
Sessions == {1, 2}
Dts == {1, 2}
OrderIds == {1, 2}
CapitalBases == {1000}

----------------------------------------------------------------------------
(* Float arithmetic, as exact rationals <<n, d>> with d > 0 in lowest terms *)

Abs(x) == IF x < 0 THEN -x ELSE x

RECURSIVE GCD(_, _)
GCD(a, b) == IF b = 0 THEN a ELSE GCD(b, a % b)

Frac(n, d) ==
    LET s == IF d < 0 THEN -1 ELSE 1
        g == GCD(Abs(n), Abs(d))
    IN  <<(s * n) \div g, (s * d) \div g>>

R(i) == <<i, 1>>
Zero == R(0)
RAdd(x, y) == Frac(x[1] * y[2] + y[1] * x[2], x[2] * y[2])
RNeg(x) == <<-x[1], x[2]>>
RSub(x, y) == RAdd(x, RNeg(y))
RMul(x, y) ==
    LET g1 == GCD(Abs(x[1]), y[2])
        g2 == GCD(Abs(y[1]), x[2])
    IN  Frac((x[1] \div g1) * (y[1] \div g2), (x[2] \div g2) * (y[2] \div g1))
RDiv(x, y) == RMul(x, Frac(y[2], y[1]))
RPos(x) == x[1] > 0
RIsZero(x) == x[1] = 0
\* np.inf, and what a float division by zero yields where it does not raise:
\* inf, -inf or nan by the sign of the numerator
Inf == <<1, 0>>
DivByZero(x) == <<IF x[1] > 0 THEN 1 ELSE IF x[1] < 0 THEN -1 ELSE 0, 0>>
\* np.floor
Floor(x) == x[1] \div x[2]

----------------------------------------------------------------------------
(* Python dict helpers *)

EmptyDict == <<>>
Put(d, k, v) == [x \in DOMAIN d \cup {k} |-> IF x = k THEN v ELSE d[x]]
Del(d, k) == [x \in DOMAIN d \ {k} |-> d[x]]

\* positions[asset] on the position book: the lookup of an instrument that
\* is not held fails (PositionNotFound)
positiondict_getitem_fails(ps, asset) == asset \notin DOMAIN ps

----------------------------------------------------------------------------
(* Position: one holding *)

\* Position(asset)
NewPosition == [amount |-> 0, cost_basis |-> Zero, last_sale_price |-> 0]

Direction(x) == IF x < 0 THEN -1 ELSE 1

\* Position.update(txn): the amount moves by the signed transaction amount;
\* the cost basis is the quantity-weighted average when the position grows
\* in its direction, the fill price when it flips, unchanged on a reduction
PositionUpdate(pos, amount, price) ==
    LET total_shares == pos.amount + amount
        cb == IF total_shares = 0 THEN Zero
              ELSE IF Direction(pos.amount) # Direction(amount)
                   THEN IF Abs(amount) > Abs(pos.amount)
                        THEN R(price) ELSE pos.cost_basis
                   ELSE RDiv(RAdd(RMul(pos.cost_basis, R(pos.amount)),
                                  R(amount * price)),
                             R(total_shares))
    IN  [amount |-> total_shares, cost_basis |-> cb, last_sale_price |-> price]

\* Position.adjust_commission_cost_basis(asset, cost)
PositionAdjustCommission(pos, cost) ==
    IF cost = 0 \/ pos.amount = 0 THEN pos
    ELSE [pos EXCEPT !.cost_basis =
            RDiv(RAdd(RMul(pos.cost_basis, R(pos.amount)), R(cost)),
                 R(pos.amount))]

\* Position.handle_split(asset, ratio): <<the position after, leftover cash>>
PositionHandleSplit(pos, ratio) ==
    LET raw_share_count == RDiv(R(pos.amount), ratio)
        full_share_count == Floor(raw_share_count)
        fractional_share_count == RSub(raw_share_count, R(full_share_count))
        new_cost_basis == RMul(pos.cost_basis, ratio)
    IN  <<[pos EXCEPT !.amount = full_share_count,
                      !.cost_basis = new_cost_basis],
          RMul(fractional_share_count, new_cost_basis)>>

\* Position.earn_dividend(dividend)
PositionEarnDividend(pos, dividend) == [amount |-> pos.amount * dividend.amount]

\* Position.earn_stock_dividend(stock_dividend)
PositionEarnStockDividend(pos, stock_dividend) ==
    [payment_asset |-> stock_dividend.payment_asset,
     share_count |-> pos.amount * stock_dividend.ratio]

----------------------------------------------------------------------------
(* PositionTracker *)

\* the mutant: the emptied position stays in the book
execute_transaction_keep_empty(ps, asset, amount, price) ==
    LET position == IF asset \in DOMAIN ps THEN ps[asset] ELSE NewPosition
    IN  Put(ps, asset, PositionUpdate(position, amount, price))

\* PositionTracker.execute_transaction: the book after the transaction
execute_transaction(ps, asset, amount, price) ==
    LET position == IF asset \in DOMAIN ps THEN ps[asset] ELSE NewPosition
        updated == PositionUpdate(position, amount, price)
    IN  IF updated.amount = 0
        THEN Del(ps, asset)
        ELSE Put(ps, asset, updated)

\* PositionTracker.update_position: None leaves a field as it is
update_position(ps, asset, amount, last_sale_price, cost_basis) ==
    LET position == IF asset \in DOMAIN ps THEN ps[asset] ELSE NewPosition
    IN  Put(ps, asset,
            [amount |-> IF amount # None THEN amount[1] ELSE position.amount,
             last_sale_price |-> IF last_sale_price # None
                                 THEN last_sale_price[1]
                                 ELSE position.last_sale_price,
             cost_basis |-> IF cost_basis # None THEN cost_basis[1]
                            ELSE position.cost_basis])

\* PositionTracker.handle_commission
handle_commission(ps, asset, cost) ==
    IF asset \in DOMAIN ps
    THEN [ps EXCEPT ![asset] = PositionAdjustCommission(ps[asset], cost)]
    ELSE ps

\* PositionTracker.handle_splits over the list of (asset, ratio):
\* the book after, the total leftover cash, and whether a held asset was split
RECURSIVE handle_splits(_, _)
handle_splits(ps, splits) ==
    IF splits = <<>>
    THEN [positions |-> ps, total_leftover_cash |-> Zero, dirty |-> FALSE]
    ELSE LET asset == Head(splits)[1]
             ratio == Head(splits)[2]
         IN  IF asset \in DOMAIN ps
             THEN LET r == PositionHandleSplit(ps[asset], ratio)
                      rest == handle_splits([ps EXCEPT ![asset] = r[1]],
                                            Tail(splits))
                  IN  [positions |-> rest.positions,
                       total_leftover_cash |->
                           RAdd(r[2], rest.total_leftover_cash),
                       dirty |-> TRUE]
             ELSE handle_splits(ps, Tail(splits))

\* dict[pay_date].append(div_owed), creating the list on KeyError
AppendUnpaid(unpaid, pay_date, div_owed) ==
    IF pay_date \in DOMAIN unpaid
    THEN [unpaid EXCEPT ![pay_date] = Append(@, div_owed)]
    ELSE Put(unpaid, pay_date, <<div_owed>>)

\* the first loop of PositionTracker.earn_dividends; a dividend on an asset
\* that is not held raises and ends the loop
RECURSIVE earn_cash_dividends(_, _, _)
earn_cash_dividends(ps, unpaid, dividends) ==
    IF dividends = <<>> THEN [unpaid |-> unpaid, err |-> "ok"]
    ELSE LET dividend == Head(dividends)
         IN  IF positiondict_getitem_fails(ps, dividend.asset)
             THEN [unpaid |-> unpaid, err |-> "KeyError"]
             ELSE earn_cash_dividends(
                      ps,
                      AppendUnpaid(unpaid, dividend.pay_date,
                                   PositionEarnDividend(ps[dividend.asset],
                                                        dividend)),
                      Tail(dividends))

\* the second loop of PositionTracker.earn_dividends
RECURSIVE earn_stock_dividends(_, _, _)
earn_stock_dividends(ps, unpaid, stock_dividends) ==
    IF stock_dividends = <<>> THEN [unpaid |-> unpaid, err |-> "ok"]
    ELSE LET stock_dividend == Head(stock_dividends)
         IN  IF positiondict_getitem_fails(ps, stock_dividend.asset)
             THEN [unpaid |-> unpaid, err |-> "KeyError"]
             ELSE earn_stock_dividends(
                      ps,
                      AppendUnpaid(unpaid, stock_dividend.pay_date,
                                   PositionEarnStockDividend(
                                       ps[stock_dividend.asset],
                                       stock_dividend)),
                      Tail(stock_dividends))

\* PositionTracker.earn_dividends: both obligation maps after, and the error
earn_dividends(ps, unpaid, unpaid_stock, dividends, stock_dividends) ==
    LET c == earn_cash_dividends(ps, unpaid, dividends)
        s == earn_stock_dividends(ps, unpaid_stock, stock_dividends)
    IN  IF c.err # "ok"
        THEN [unpaid_dividends |-> c.unpaid,
              unpaid_stock_dividends |-> unpaid_stock, err |-> c.err]
        ELSE [unpaid_dividends |-> c.unpaid,
              unpaid_stock_dividends |-> s.unpaid, err |-> s.err]

\* the mutant: the paid obligations are not dropped
unpaid_after_payment_kept(unpaid, next_trading_day) == unpaid

\* pay_dividends: del self._unpaid_dividends[next_trading_day]
unpaid_after_payment(unpaid, next_trading_day) ==
    IF next_trading_day \in DOMAIN unpaid
    THEN Del(unpaid, next_trading_day)
    ELSE unpaid

\* pay_dividends: the sum of payment['amount'] over the payments of the day
RECURSIVE SumAmounts(_)
SumAmounts(payments) ==
    IF payments = <<>> THEN 0
    ELSE Head(payments).amount + SumAmounts(Tail(payments))

\* the mutant: the payments of some pending day are paid, whatever the day
net_cash_payment_of_any_day(unpaid, next_trading_day) ==
    IF DOMAIN unpaid # {}
    THEN SumAmounts(unpaid[CHOOSE d \in DOMAIN unpaid : TRUE])
    ELSE 0

net_cash_payment(unpaid, next_trading_day) ==
    IF next_trading_day \in DOMAIN unpaid
    THEN SumAmounts(unpaid[next_trading_day])
    ELSE 0

\* pay_dividends: the loop over the stock payments of the day
RECURSIVE apply_stock_payments(_, _)
apply_stock_payments(ps, stock_payments) ==
    IF stock_payments = <<>> THEN ps
    ELSE LET payment_asset == Head(stock_payments).payment_asset
             share_count == Head(stock_payments).share_count
             position == IF payment_asset \in DOMAIN ps
                         THEN ps[payment_asset] ELSE NewPosition
         IN  apply_stock_payments(
                 Put(ps, payment_asset,
                     [position EXCEPT !.amount = @ + share_count]),
                 Tail(stock_payments))

\* PositionTracker.pay_dividends: the stock obligations of the day are read
\* and applied; nothing deletes them
pay_dividends(ps, unpaid, unpaid_stock, next_trading_day) ==
    [net_cash_payment |-> net_cash_payment(unpaid, next_trading_day),
     unpaid_dividends |-> unpaid_after_payment(unpaid, next_trading_day),
     unpaid_stock_dividends |-> unpaid_stock,
     positions |->
        apply_stock_payments(
            ps,
            IF next_trading_day \in DOMAIN unpaid_stock
            THEN unpaid_stock[next_trading_day] ELSE <<>>)]

\* PositionTracker.maybe_create_close_position_transaction: None, or the
\* closing transaction
maybe_create_close_position_transaction(ps, asset, spot) ==
    IF asset \notin DOMAIN ps THEN None
    ELSE Some([amount |-> -1 * ps[asset].amount,
               price |-> IF spot = NaN THEN ps[asset].last_sale_price
                         ELSE spot[1]])

\* PositionTracker.sync_last_sale_prices: spot[asset] is what the price
\* source reports for the asset, NaN when it has no price
sync_positions(ps, spot) ==
    [a \in DOMAIN ps |->
        IF spot[a] # NaN
        THEN [ps[a] EXCEPT !.last_sale_price = spot[a][1]]
        ELSE ps[a]]

\* PositionTracker.stats: one pass over the positions in the order the dict
\* yields them
EmptyStats ==
    [net_value |-> 0, long_value |-> 0, short_value |-> 0,
     long_exposure |-> 0, short_exposure |-> 0,
     longs_count |-> 0, shorts_count |-> 0]

RECURSIVE stats_loop(_, _, _)
stats_loop(ps, order, acc) ==
    IF order = <<>> THEN acc
    ELSE LET position == ps[Head(order)]
             asset == Head(order)
             base == position.amount * position.last_sale_price
             exposure == IF IsFuture(asset) THEN base * multiplier[asset]
                         ELSE base
             value == IF IsFuture(asset) THEN 0 ELSE exposure
             counted ==
                IF exposure > 0
                THEN [acc EXCEPT !.longs_count = @ + 1,
                                 !.long_value = @ + value,
                                 !.long_exposure = exposure]
                ELSE IF exposure < 0
                THEN [acc EXCEPT !.shorts_count = @ + 1,
                                 !.short_value = @ + value,
                                 !.short_exposure = @ + exposure]
                ELSE acc
         IN  stats_loop(ps, Tail(order),
                        [counted EXCEPT !.net_value = @ + value])

calculate_stats(ps, order) ==
    LET s == stats_loop(ps, order, EmptyStats)
    IN  [net_exposure |-> s.long_exposure + s.short_exposure,
         gross_value |-> s.long_value - s.short_value,
         gross_exposure |-> s.long_exposure - s.short_exposure,
         short_value |-> s.short_value,
         short_exposure |-> s.short_exposure,
         shorts_count |-> s.shorts_count,
         long_value |-> s.long_value,
         long_exposure |-> s.long_exposure,
         longs_count |-> s.longs_count,
         net_value |-> s.net_value]

\* the orders in which itervalues(self.positions) can yield the positions
IterationOrders(ps) ==
    {o \in [1 .. Cardinality(DOMAIN ps) -> DOMAIN ps] :
        \A i, j \in DOMAIN o : i # j => o[i] # o[j]}

----------------------------------------------------------------------------
(* Ledger: construction *)

\* the record of the operation just completed
NoOp ==
    [op |-> "init", err |-> "ok", asset |-> "", amount |-> 0, price |-> 0,
     key |-> 0, ret |-> Zero, expected |-> 0, held_before |-> 0,
     had_ref |-> FALSE, ref_before |-> 0, cash_before |-> Zero,
     was_dirty |-> FALSE, was_settled |-> FALSE,
     amounts_before |-> [a \in Assets |-> 0],
     result |-> <<>>, zero_before |-> FALSE, spot |-> None]

\* the amount held per asset, 0 for an asset with no Position
Amounts(ps) == [a \in Assets |-> IF a \in DOMAIN ps THEN ps[a].amount ELSE 0]

\* zp.Portfolio(start_date, capital_base)
NewPortfolio(capital_base) ==
    [starting_cash |-> R(capital_base), cash_flow |-> Zero,
     cash |-> R(capital_base), portfolio_value |-> R(capital_base),
     positions_value |-> Zero, positions_exposure |-> Zero,
     pnl |-> Zero, returns |-> Zero]

NoHistory ==
    [txn_cash |-> Zero, commissions |-> 0, dividends_paid |-> 0,
     split_leftover |-> Zero, capital_changes |-> 0,
     futures_txns |-> 0, mtm_due |-> 0, silent_splits |-> 0,
     net_qty |-> [a \in Assets |-> 0],
     owed |-> [d \in Sessions |-> 0],
     stock_settled |-> [d \in Sessions |-> TRUE],
     supplied |-> EmptyDict,
     zero_value |-> FALSE,
     closed |-> <<>>,
     txn_log |-> <<>>,
     order_log |-> <<>>]

\* zp.Account(): the attributes an account starts with
NewAccount ==
    [f \in {"settled_cash", "accrued_interest", "buying_power",
            "equity_with_loan", "total_positions_value",
            "total_positions_exposure", "regt_equity", "regt_margin",
            "initial_margin_requirement", "maintenance_margin_requirement",
            "available_funds", "excess_liquidity", "cushion",
            "day_trades_remaining", "leverage", "net_leverage",
            "net_liquidation"} |->
        IF f \in {"buying_power", "regt_margin", "day_trades_remaining"}
        THEN Inf ELSE Zero]

\* PositionTracker.__init__ and Ledger.__init__
Init ==
    /\ positions = EmptyDict
    /\ unpaid_dividends = EmptyDict
    /\ unpaid_stock_dividends = EmptyDict
    /\ dirty_stats = TRUE
    /\ stats_cache = None
    /\ dirty_portfolio = FALSE
    /\ dirty_account = TRUE
    /\ portfolio_dirty_attr = FALSE
    /\ \E capital_base \in CapitalBases : portfolio = NewPortfolio(capital_base)
    /\ payout_last_sale_prices = EmptyDict
    /\ processed_transactions = EmptyDict
    /\ orders_by_modified = EmptyDict
    /\ orders_by_id = <<>>
    /\ previous_total_returns = Zero
    /\ daily_returns = [s \in Sessions |-> NaN]
    /\ account = NewAccount
    /\ account_overrides = EmptyDict
    /\ last = NoOp
    /\ hist = NoHistory
    /\ steps = 0

----------------------------------------------------------------------------
(* Ledger: pure parts *)

\* Ledger._calculate_execution_cash_flow
calculate_execution_cash_flow(asset, amount, price) ==
    IF IsFuture(asset) THEN 0 ELSE -1 * price * amount

\* Ledger._calculate_payout
calculate_payout(mult, amount, old_price, price) ==
    (price - old_price) * mult * amount

\* Ledger._get_payout_total: with no reference price the loop body never
\* runs and the total is 0; otherwise the first iteration raises, KeyError
\* from positions[asset] when the asset is not held and AttributeError from
\* positions.amount when it is
get_payout_total_errors(ps, payout) ==
    {IF positiondict_getitem_fails(ps, a) THEN "KeyError" ELSE "AttributeError" :
        a \in DOMAIN payout}

\* the recomputation with the period's return added to the accumulated
\* returns instead of compounded
recompute_portfolio_adding_returns(pf, position_stats, payout) ==
    LET cash == RAdd(RAdd(pf.starting_cash, pf.cash_flow), R(payout))
        start_value == pf.portfolio_value
        end_value == RAdd(cash, R(position_stats.net_value))
        pnl == RSub(end_value, start_value)
        returns == IF ~RIsZero(start_value) THEN RDiv(pnl, start_value)
                   ELSE Zero
    IN  [pf EXCEPT !.positions_value = R(position_stats.net_value),
                   !.positions_exposure = R(position_stats.net_exposure),
                   !.cash = cash,
                   !.portfolio_value = end_value,
                   !.pnl = RAdd(@, pnl),
                   !.returns = RAdd(@, returns)]

\* Ledger.portfolio, the recomputation once stats and payout are known
recompute_portfolio(pf, position_stats, payout) ==
    LET cash == RAdd(RAdd(pf.starting_cash, pf.cash_flow), R(payout))
        start_value == pf.portfolio_value
        end_value == RAdd(cash, R(position_stats.net_value))
        pnl == RSub(end_value, start_value)
        returns == IF ~RIsZero(start_value) THEN RDiv(pnl, start_value)
                   ELSE Zero
    IN  [pf EXCEPT !.positions_value = R(position_stats.net_value),
                   !.positions_exposure = R(position_stats.net_exposure),
                   !.cash = cash,
                   !.portfolio_value = end_value,
                   !.pnl = RAdd(@, pnl),
                   !.returns = RSub(RMul(RAdd(R(1), @), RAdd(R(1), returns)),
                                    R(1))]

\* PositionTracker.stats: the cached value unless dirty; nothing clears
\* _dirty_stats
stats_read(ps, dirty, cache, order) ==
    IF ~dirty THEN cache ELSE Some(calculate_stats(ps, order))

\* the mutant: a read of a clean portfolio adds its pnl once more
PortfolioReads_recounting(pf, ps, payout, dirty_pf, dirty_st, cache) ==
    IF ~dirty_pf
    THEN {[portfolio |->
              [pf EXCEPT !.pnl =
                  RAdd(@, RSub(pf.portfolio_value, pf.starting_cash))],
           stats |-> cache, dirty |-> FALSE, err |-> "ok"]}
    ELSE UNION {
        LET st == stats_read(ps, dirty_st, cache, order)
            shown == [pf EXCEPT
                        !.positions_value = R(st[1].net_value),
                        !.positions_exposure = R(st[1].net_exposure)]
        IN  IF DOMAIN payout = {}
            THEN {[portfolio |-> recompute_portfolio(pf, st[1], 0),
                   stats |-> st, dirty |-> FALSE, err |-> "ok"]}
            ELSE {[portfolio |-> shown, stats |-> st, dirty |-> TRUE,
                   err |-> e] : e \in get_payout_total_errors(ps, payout)}
        : order \in IterationOrders(ps)}

\* Ledger.portfolio: what a read leaves behind, per iteration order and, when
\* _get_payout_total raises, per error
PortfolioReads(pf, ps, payout, dirty_pf, dirty_st, cache) ==
    IF ~dirty_pf
    THEN {[portfolio |-> pf, stats |-> cache, dirty |-> FALSE, err |-> "ok"]}
    ELSE UNION {
        LET st == stats_read(ps, dirty_st, cache, order)
            shown == [pf EXCEPT
                        !.positions_value = R(st[1].net_value),
                        !.positions_exposure = R(st[1].net_exposure)]
        IN  IF DOMAIN payout = {}
            THEN {[portfolio |-> recompute_portfolio(pf, st[1], 0),
                   stats |-> st, dirty |-> FALSE, err |-> "ok"]}
            ELSE {[portfolio |-> shown, stats |-> st, dirty |-> TRUE,
                   err |-> e] : e \in get_payout_total_errors(ps, payout)}
        : order \in IterationOrders(ps)}

\* what a read of the portfolio adds to the history: whether a completed
\* recomputation has found a portfolio_value of zero
HistoryAfterRead(dirty_before, dirty_after, pf) ==
    [hist EXCEPT !.zero_value =
        @ \/ (dirty_before /\ ~dirty_after /\ RIsZero(pf.portfolio_value))]

----------------------------------------------------------------------------
(* Ledger: operations *)

\* the mutant: the setter leaves the account flag alone
MarkPortfolioDirty_alone ==
    /\ dirty_portfolio' = TRUE
    /\ UNCHANGED dirty_account

\* the _dirty_portfolio setter with a true value: the account is dirtied too
MarkPortfolioDirty ==
    /\ dirty_portfolio' = TRUE
    /\ dirty_account' = TRUE

\* transaction.to_dict()
TransactionDict(asset, amount, price, dt) ==
    [asset |-> asset, amount |-> amount, price |-> price, dt |-> dt]

\* Ledger.process_transaction
process_transaction(asset, amount, price, dt, opname, spot) ==
    LET ps1 == execute_transaction(positions, asset, amount, price)
        flow == calculate_execution_cash_flow(asset, amount, price)
        has_ref == asset \in DOMAIN payout_last_sale_prices
        settles == IsFuture(asset) /\ has_ref
        raises == settles /\ positiondict_getitem_fails(ps1, asset)
        position_amount == ps1[asset].amount
        old_price == payout_last_sale_prices[asset]
    IN  /\ positions' = ps1
        /\ dirty_stats' = TRUE
        /\ MarkPortfolioDirty
        /\ portfolio' =
              [portfolio EXCEPT
                 !.cash_flow = RAdd(@, R(flow)),
                 !.cash = IF settles /\ ~raises
                          THEN RAdd(@, R(calculate_payout(multiplier[asset],
                                                          position_amount,
                                                          old_price, price)))
                          ELSE @]
        /\ payout_last_sale_prices' =
              IF ~IsFuture(asset) \/ raises THEN payout_last_sale_prices
              ELSE IF ~has_ref THEN Put(payout_last_sale_prices, asset, price)
              ELSE IF position_amount + amount = 0
                   THEN Del(payout_last_sale_prices, asset)
                   ELSE Put(payout_last_sale_prices, asset, price)
        /\ processed_transactions' =
              IF raises THEN processed_transactions
              ELSE AppendUnpaid(processed_transactions, dt,
                                TransactionDict(asset, amount, price, dt))
        /\ last' = [NoOp EXCEPT
                      !.op = opname,
                      !.err = IF raises THEN "KeyError" ELSE "ok",
                      !.asset = asset, !.amount = amount, !.price = price,
                      !.key = dt, !.spot = spot,
                      !.held_before = Amounts(positions)[asset],
                      !.had_ref = has_ref,
                      !.ref_before = IF has_ref THEN old_price ELSE 0,
                      !.cash_before = portfolio.cash,
                      !.was_dirty = dirty_portfolio,
                      !.amounts_before = Amounts(positions)]
        /\ hist' = [hist EXCEPT
                      !.txn_cash = RAdd(@, R(flow)),
                      !.net_qty[asset] = @ + amount,
                      !.futures_txns = IF IsFuture(asset) THEN @ + 1 ELSE @,
                      !.txn_log =
                          IF raises THEN @
                          ELSE Append(@, TransactionDict(asset, amount,
                                                         price, dt)),
                      !.mtm_due =
                          IF settles
                          THEN @ + (price - old_price) * multiplier[asset]
                                   * Amounts(positions)[asset]
                          ELSE @]
        /\ UNCHANGED <<unpaid_dividends, unpaid_stock_dividends, stats_cache,
                       portfolio_dirty_attr, orders_by_modified, orders_by_id,
                       returnsVars, accountVars>>

ProcessTransaction(asset, amount, price, dt) ==
    process_transaction(asset, amount, price, dt, "process_transaction", None)

\* Ledger.close_position
ClosePosition(asset, dt, spot) ==
    LET txn == maybe_create_close_position_transaction(positions, asset, spot)
    IN  IF txn # None
        THEN process_transaction(asset, txn[1].amount, txn[1].price, dt,
                                 "close_position", spot)
        ELSE /\ last' = [NoOp EXCEPT !.op = "close_position_none",
                                     !.asset = asset, !.key = dt,
                                     !.spot = spot,
                                     !.cash_before = portfolio.cash,
                                     !.was_dirty = dirty_portfolio,
                                     !.amounts_before = Amounts(positions)]
             /\ UNCHANGED <<trackerVars, dirty_portfolio, dirty_account,
                            portfolio_dirty_attr, portfolio,
                            payout_last_sale_prices, journalVars, returnsVars,
                            accountVars,
                            hist>>

\* Ledger.process_commission
ProcessCommission(asset, cost) ==
    /\ positions' = handle_commission(positions, asset, cost)
    /\ dirty_stats' = (dirty_stats \/ asset \in DOMAIN positions)
    /\ MarkPortfolioDirty
    /\ portfolio' = [portfolio EXCEPT !.cash_flow = RSub(@, R(cost))]
    /\ last' = [NoOp EXCEPT !.op = "process_commission", !.asset = asset,
                            !.amount = cost,
                            !.cash_before = portfolio.cash,
                            !.was_dirty = dirty_portfolio,
                            !.amounts_before = Amounts(positions)]
    /\ hist' = [hist EXCEPT !.commissions = @ + cost]
    /\ UNCHANGED <<unpaid_dividends, unpaid_stock_dividends, stats_cache,
                   portfolio_dirty_attr, payout_last_sale_prices, journalVars,
                   returnsVars, accountVars>>

\* the mutant: the portfolio is dirtied whenever a held instrument is split
ProcessSplits_dirtying(splits) ==
    LET r == handle_splits(positions, splits)
        leftover_cash == r.total_leftover_cash
    IN  /\ positions' = r.positions
        /\ dirty_stats' = (dirty_stats \/ r.dirty)
        /\ IF RPos(leftover_cash)
           THEN /\ MarkPortfolioDirty
                /\ portfolio' = [portfolio EXCEPT
                                   !.cash_flow = RAdd(@, leftover_cash)]
                /\ hist' = [hist EXCEPT
                              !.split_leftover = RAdd(@, leftover_cash)]
           ELSE /\ hist' = [hist EXCEPT
                              !.silent_splits = IF r.dirty THEN @ + 1 ELSE @]
                /\ IF r.dirty THEN MarkPortfolioDirty
                   ELSE UNCHANGED <<dirty_portfolio, dirty_account>>
                /\ UNCHANGED portfolio
        /\ last' = [NoOp EXCEPT !.op = "process_splits",
                                !.ret = leftover_cash,
                                !.result = splits,
                                !.cash_before = portfolio.cash,
                                !.was_dirty = dirty_portfolio,
                                !.amounts_before = Amounts(positions)]
        /\ UNCHANGED <<unpaid_dividends, unpaid_stock_dividends, stats_cache,
                       portfolio_dirty_attr, payout_last_sale_prices,
                       journalVars, returnsVars, accountVars>>

\* Ledger.process_splits
ProcessSplits(splits) ==
    LET r == handle_splits(positions, splits)
        leftover_cash == r.total_leftover_cash
    IN  /\ positions' = r.positions
        /\ dirty_stats' = (dirty_stats \/ r.dirty)
        /\ IF RPos(leftover_cash)
           THEN /\ MarkPortfolioDirty
                /\ portfolio' = [portfolio EXCEPT
                                   !.cash_flow = RAdd(@, leftover_cash)]
                /\ hist' = [hist EXCEPT
                              !.split_leftover = RAdd(@, leftover_cash)]
           ELSE /\ hist' = [hist EXCEPT
                              !.silent_splits = IF r.dirty THEN @ + 1 ELSE @]
                /\ UNCHANGED <<dirty_portfolio, dirty_account, portfolio>>
        /\ last' = [NoOp EXCEPT !.op = "process_splits",
                                !.ret = leftover_cash,
                                !.result = splits,
                                !.cash_before = portfolio.cash,
                                !.was_dirty = dirty_portfolio,
                                !.amounts_before = Amounts(positions)]
        /\ UNCHANGED <<unpaid_dividends, unpaid_stock_dividends, stats_cache,
                       portfolio_dirty_attr, payout_last_sale_prices,
                       journalVars, returnsVars, accountVars>>

\* what the obligations of a list of cash dividends come to, per pay-date,
\* with the amounts held now
RECURSIVE RecordedPrefix(_, _)
RecordedPrefix(ps, dividends) ==
    IF dividends = <<>> \/ Head(dividends).asset \notin DOMAIN ps THEN <<>>
    ELSE <<Head(dividends)>> \o RecordedPrefix(ps, Tail(dividends))

RECURSIVE OwedAfter(_, _, _)
OwedAfter(owed, ps, dividends) ==
    IF dividends = <<>> \/ Head(dividends).asset \notin DOMAIN ps THEN owed
    ELSE LET d == Head(dividends)
         IN  OwedAfter([owed EXCEPT ![d.pay_date] =
                            @ + ps[d.asset].amount * d.amount],
                       ps, Tail(dividends))

PayDates(dividends) == {dividends[i].pay_date : i \in DOMAIN dividends}

\* Ledger.process_dividends: cash_dividends and stock_dividends are what the
\* adjustment reader returns for the held assets and next_session
ProcessDividends(next_session, cash_dividends, stock_dividends) ==
    LET held_sids == DOMAIN positions
        e == IF held_sids # {}
             THEN earn_dividends(positions, unpaid_dividends,
                                 unpaid_stock_dividends, cash_dividends,
                                 stock_dividends)
             ELSE [unpaid_dividends |-> unpaid_dividends,
                   unpaid_stock_dividends |-> unpaid_stock_dividends,
                   err |-> "ok"]
        p == pay_dividends(positions, e.unpaid_dividends,
                           e.unpaid_stock_dividends, next_session)
        owed1 == OwedAfter(hist.owed, positions, cash_dividends)
        settled1 == [d \in Sessions |->
                        hist.stock_settled[d]
                        /\ d \notin PayDates(stock_dividends)]
    IN  /\ held_sids = {} => (cash_dividends = <<>> /\ stock_dividends = <<>>)
        /\ positions' = p.positions
        /\ unpaid_dividends' = p.unpaid_dividends
        /\ unpaid_stock_dividends' = p.unpaid_stock_dividends
        /\ MarkPortfolioDirty
        /\ portfolio' = [portfolio EXCEPT
                           !.cash_flow = RAdd(@, R(p.net_cash_payment))]
        /\ last' = [NoOp EXCEPT !.op = "process_dividends",
                                !.key = next_session,
                                !.ret = R(p.net_cash_payment),
                                !.expected = owed1[next_session],
                                !.was_settled = settled1[next_session],
                                !.cash_before = portfolio.cash,
                                !.was_dirty = dirty_portfolio,
                                !.amounts_before = Amounts(positions)]
        /\ hist' = [hist EXCEPT
                      !.dividends_paid = @ + p.net_cash_payment,
                      !.owed = [owed1 EXCEPT ![next_session] = 0],
                      !.stock_settled = [settled1 EXCEPT
                                           ![next_session] = TRUE]]
        /\ UNCHANGED <<dirty_stats, stats_cache, portfolio_dirty_attr,
                       payout_last_sale_prices, journalVars, returnsVars, accountVars>>

\* Ledger.sync_last_sale_prices: the assignment of line 497 creates the
\* attribute _portfolio_dirty; the portfolio's dirty flag is not touched
SyncLastSalePrices(spot) ==
    /\ positions' = sync_positions(positions, spot)
    /\ dirty_stats' = TRUE
    /\ portfolio_dirty_attr' = TRUE
    /\ last' = [NoOp EXCEPT !.op = "sync_last_sale_prices",
                            !.cash_before = portfolio.cash,
                            !.was_dirty = dirty_portfolio,
                            !.amounts_before = Amounts(positions)]
    /\ UNCHANGED <<unpaid_dividends, unpaid_stock_dividends, stats_cache,
                   dirty_portfolio, dirty_account, portfolio,
                   payout_last_sale_prices, journalVars, returnsVars, accountVars, hist>>

\* capital_change booked as a cash flow of the portfolio
CapitalChange_as_cash_flow(change_amount) ==
    /\ portfolio' = [portfolio EXCEPT
                       !.cash_flow = RAdd(@, R(change_amount))]
    /\ MarkPortfolioDirty
    /\ last' = [NoOp EXCEPT !.op = "capital_change", !.amount = change_amount,
                            !.cash_before = portfolio.cash,
                            !.was_dirty = dirty_portfolio,
                            !.amounts_before = Amounts(positions)]
    /\ hist' = [hist EXCEPT !.capital_changes = @ + change_amount]
    /\ UNCHANGED <<trackerVars, portfolio_dirty_attr,
                   payout_last_sale_prices, journalVars, returnsVars,
                   accountVars>>

\* the mutant: the capital change reaches the cash only
CapitalChange_cash_only(change_amount) ==
    /\ portfolio' = [portfolio EXCEPT
                       !.cash = RAdd(@, R(change_amount))]
    /\ last' = [NoOp EXCEPT !.op = "capital_change", !.amount = change_amount,
                            !.cash_before = portfolio.cash,
                            !.was_dirty = dirty_portfolio,
                            !.amounts_before = Amounts(positions)]
    /\ hist' = [hist EXCEPT !.capital_changes = @ + change_amount]
    /\ UNCHANGED <<trackerVars, dirty_portfolio, dirty_account,
                   portfolio_dirty_attr, payout_last_sale_prices, journalVars,
                   returnsVars, accountVars>>

\* Ledger.capital_change
CapitalChange(change_amount) ==
    /\ portfolio' = [portfolio EXCEPT
                       !.portfolio_value = RAdd(@, R(change_amount)),
                       !.cash = RAdd(@, R(change_amount))]
    /\ last' = [NoOp EXCEPT !.op = "capital_change", !.amount = change_amount,
                            !.cash_before = portfolio.cash,
                            !.was_dirty = dirty_portfolio,
                            !.amounts_before = Amounts(positions)]
    /\ hist' = [hist EXCEPT !.capital_changes = @ + change_amount]
    /\ UNCHANGED <<trackerVars, dirty_portfolio, dirty_account,
                   portfolio_dirty_attr, payout_last_sale_prices, journalVars,
                   returnsVars, accountVars>>

\* the property Ledger.portfolio
PortfolioRead ==
    \E r \in PortfolioReads(portfolio, positions, payout_last_sale_prices,
                            dirty_portfolio, dirty_stats, stats_cache) :
        /\ portfolio' = r.portfolio
        /\ stats_cache' = r.stats
        /\ dirty_portfolio' = r.dirty
        /\ last' = [NoOp EXCEPT !.op = "portfolio", !.err = r.err,
                                !.cash_before = portfolio.cash,
                                !.was_dirty = dirty_portfolio,
                                !.zero_before = hist.zero_value,
                                !.amounts_before = Amounts(positions)]
        /\ hist' = HistoryAfterRead(dirty_portfolio, r.dirty, r.portfolio)
        /\ UNCHANGED <<positions, unpaid_dividends, unpaid_stock_dividends,
                       dirty_stats, dirty_account, portfolio_dirty_attr,
                       payout_last_sale_prices, journalVars, returnsVars,
                       accountVars>>

\* Ledger.end_of_session: the journals are reset, then the portfolio is read
EndOfSession(session_label) ==
    \E r \in PortfolioReads(portfolio, positions, payout_last_sale_prices,
                            dirty_portfolio, dirty_stats, stats_cache) :
        LET current_total_returns == r.portfolio.returns
            divides == ~RIsZero(RAdd(previous_total_returns, R(1)))
            err == IF r.err # "ok" THEN r.err
                   ELSE IF ~divides THEN "ZeroDivisionError" ELSE "ok"
        IN  /\ processed_transactions' = EmptyDict
            /\ orders_by_modified' = EmptyDict
            /\ orders_by_id' = <<>>
            /\ portfolio' = r.portfolio
            /\ stats_cache' = r.stats
            /\ dirty_portfolio' = r.dirty
            /\ daily_returns' =
                  IF err = "ok"
                  THEN [daily_returns EXCEPT ![session_label] =
                          Some(RSub(RDiv(RAdd(current_total_returns, R(1)),
                                         RAdd(previous_total_returns, R(1))),
                                    R(1)))]
                  ELSE daily_returns
            /\ previous_total_returns' =
                  IF err = "ok" THEN current_total_returns
                  ELSE previous_total_returns
            /\ last' = [NoOp EXCEPT !.op = "end_of_session", !.err = err,
                                    !.key = session_label,
                                    !.cash_before = portfolio.cash,
                                    !.was_dirty = dirty_portfolio,
                                    !.amounts_before = Amounts(positions)]
            /\ hist' = [HistoryAfterRead(dirty_portfolio, r.dirty,
                                         r.portfolio)
                            EXCEPT !.closed = Append(@, session_label),
                                   !.txn_log = <<>>,
                                   !.order_log = <<>>]
            /\ UNCHANGED <<positions, unpaid_dividends, unpaid_stock_dividends,
                           dirty_stats, dirty_account, portfolio_dirty_attr,
                           payout_last_sale_prices, accountVars>>

----------------------------------------------------------------------------
(* Ledger: the order journals.  An OrderedDict is the sequence of its      *)
(* values, each carrying its key in the field id.                          *)

HasKey(od, id) == \E i \in DOMAIN od : od[i].id = id

\* od[id] = value: a new key is appended, an existing key keeps its place
SetItem(od, id, value) ==
    IF HasKey(od, id)
    THEN [i \in DOMAIN od |-> IF od[i].id = id THEN value ELSE od[i]]
    ELSE Append(od, value)

\* move_to_end(od, id, last=True)
move_to_end(od, id) ==
    LET value == od[CHOOSE i \in DOMAIN od : od[i].id = id]
    IN  Append(SelectSeq(od, LAMBDA o : o.id # id), value)

\* order.to_dict()
OrderDict(id, dt, filled) == [id |-> id, dt |-> dt, filled |-> filled]

\* Ledger.process_order: orders_by_id after the call
orders_by_id_after(by_modified, by_id, id, dt, filled) ==
    IF dt \notin DOMAIN by_modified
    THEN SetItem(by_id, id, OrderDict(id, dt, filled))
    ELSE move_to_end(SetItem(by_id, id, OrderDict(id, dt, filled)), id)

\* Ledger.process_order: orders_by_modified after the call
orders_by_modified_after(by_modified, id, dt, filled) ==
    IF dt \notin DOMAIN by_modified
    THEN Put(by_modified, dt, <<OrderDict(id, dt, filled)>>)
    ELSE [by_modified EXCEPT ![dt] =
            move_to_end(SetItem(@, id, OrderDict(id, dt, filled)), id)]

ProcessOrder(id, dt, filled) ==
    /\ orders_by_id' =
          orders_by_id_after(orders_by_modified, orders_by_id, id, dt, filled)
    /\ orders_by_modified' =
          orders_by_modified_after(orders_by_modified, id, dt, filled)
    /\ last' = [NoOp EXCEPT !.op = "process_order", !.key = id,
                            !.amount = dt, !.price = filled,
                            !.had_ref = HasKey(orders_by_id, id),
                            !.cash_before = portfolio.cash,
                            !.was_dirty = dirty_portfolio,
                            !.amounts_before = Amounts(positions)]
    /\ hist' = [hist EXCEPT
                  !.order_log = Append(@, OrderDict(id, dt, filled))]
    /\ UNCHANGED <<trackerVars, dirty_portfolio, dirty_account,
                   portfolio_dirty_attr, portfolio, payout_last_sale_prices,
                   processed_transactions, returnsVars, accountVars>>

----------------------------------------------------------------------------
(* Ledger: the journal queries.  dt is an optional timestamp. *)

\* the orders in which itervalues of a dict keyed by timestamp can yield
KeyOrders(d) ==
    {o \in [1 .. Cardinality(DOMAIN d) -> DOMAIN d] :
        \A i, j \in DOMAIN o : i # j => o[i] # o[j]}

RECURSIVE Flatten(_, _)
Flatten(d, order) ==
    IF order = <<>> THEN <<>>
    ELSE d[Head(order)] \o Flatten(d, Tail(order))

\* a lookup that answers a missing timestamp with an empty list
bucket_or_empty(journal, dt) ==
    IF dt \in DOMAIN journal THEN [err |-> "ok", rows |-> journal[dt]]
    ELSE [err |-> "ok", rows |-> <<>>]

\* self._processed_transactions[dt], self._orders_by_modified[dt]
bucket(journal, dt) ==
    IF dt \in DOMAIN journal THEN [err |-> "ok", rows |-> journal[dt]]
    ELSE [err |-> "KeyError", rows |-> <<>>]

\* Ledger.transactions
TransactionsResults(dt) ==
    IF dt = None
    THEN {[err |-> "ok", rows |-> Flatten(processed_transactions, order)] :
            order \in KeyOrders(processed_transactions)}
    ELSE {bucket(processed_transactions, dt[1])}

\* Ledger.orders
OrdersResults(dt) ==
    IF dt = None
    THEN {[err |-> "ok", rows |-> orders_by_id]}
    ELSE {bucket(orders_by_modified, dt[1])}

Query(opname, dt, r) ==
    /\ last' = [NoOp EXCEPT !.op = opname, !.err = r.err, !.key = dt,
                            !.result = r.rows,
                            !.cash_before = portfolio.cash,
                            !.was_dirty = dirty_portfolio,
                            !.amounts_before = Amounts(positions)]
    /\ UNCHANGED <<trackerVars, dirty_portfolio, dirty_account,
                   portfolio_dirty_attr, portfolio, payout_last_sale_prices,
                   journalVars, returnsVars, accountVars, hist>>

Transactions(dt) == \E r \in TransactionsResults(dt) : Query("transactions", dt, r)

Orders(dt) == \E r \in OrdersResults(dt) : Query("orders", dt, r)

----------------------------------------------------------------------------
(* Ledger: the account *)

\* Ledger._calculate_net_liquidation
calculate_net_liquidation(ending_cash, long_value, short_value) ==
    RAdd(RAdd(ending_cash, R(long_value)), R(short_value))

\* the leverage as the quotient a float division by zero yields
calculate_leverage_dividing(exposure, net_liquidation) ==
    IF ~RIsZero(net_liquidation) THEN RDiv(R(exposure), net_liquidation)
    ELSE DivByZero(R(exposure))

\* Ledger._calculate_leverage
calculate_leverage(exposure, net_liquidation) ==
    IF ~RIsZero(net_liquidation) THEN RDiv(R(exposure), net_liquidation)
    ELSE Inf

\* Ledger.calculate_period_stats, given the cash of _portfolio and the stats
\* of the position tracker
calculate_period_stats(cash, position_stats) ==
    LET net_liquidation ==
            calculate_net_liquidation(cash, position_stats.long_value,
                                      position_stats.short_value)
    IN  [net_liquidation |-> net_liquidation,
         gross_leverage |->
            calculate_leverage(position_stats.gross_exposure, net_liquidation),
         net_leverage |->
            calculate_leverage(position_stats.net_exposure, net_liquidation)]

\* account_dict.update(d)
Update(acct, d) ==
    [f \in DOMAIN acct \cup DOMAIN d |-> IF f \in DOMAIN d THEN d[f] ELSE acct[f]]

\* Ledger.account: the defaults assigned before the cushion
account_defaults_before_cushion(pf) ==
    [settled_cash |-> pf.cash,
     accrued_interest |-> Zero,
     buying_power |-> Inf,
     equity_with_loan |-> pf.portfolio_value,
     total_positions_value |-> RSub(pf.portfolio_value, pf.cash),
     total_positions_exposure |-> pf.positions_exposure,
     regt_equity |-> pf.cash,
     regt_margin |-> Inf,
     initial_margin_requirement |-> Zero,
     maintenance_margin_requirement |-> Zero,
     available_funds |-> pf.cash,
     excess_liquidity |-> pf.cash]

\* Ledger.account: the defaults assigned from the cushion on
account_defaults_from_cushion(pf, cushion, period_stats) ==
    [cushion |-> cushion,
     day_trades_remaining |-> Inf,
     net_liquidation |-> period_stats.net_liquidation,
     gross_leverage |-> period_stats.gross_leverage,
     net_leverage |-> period_stats.net_leverage]

\* portfolio.cash / portfolio.portfolio_value: with a zero portfolio_value a
\* Python float raises and a numpy float yields inf, -inf or nan
CushionOutcomes(pf) ==
    IF ~RIsZero(pf.portfolio_value)
    THEN {[err |-> "ok", value |-> RDiv(pf.cash, pf.portfolio_value)]}
    ELSE {[err |-> "ZeroDivisionError", value |-> Zero],
          [err |-> "ok", value |-> DivByZero(pf.cash)]}

\* Ledger.account: what a read leaves behind
AccountReads(acct, overrides, dirty_acct, pf, ps, payout, dirty_pf, dirty_st, cache) ==
    IF ~dirty_acct
    THEN {[account |-> acct, portfolio |-> pf, stats |-> cache,
           dirty_portfolio |-> dirty_pf, dirty_account |-> FALSE,
           err |-> "ok"]}
    ELSE UNION {
        IF r.err # "ok"
        THEN {[account |-> acct, portfolio |-> r.portfolio, stats |-> r.stats,
               dirty_portfolio |-> r.dirty, dirty_account |-> TRUE,
               err |-> r.err]}
        ELSE UNION {
            LET before == Update(acct,
                                 account_defaults_before_cushion(r.portfolio))
            IN  IF c.err # "ok"
                THEN {[account |-> before, portfolio |-> r.portfolio,
                       stats |-> r.stats, dirty_portfolio |-> r.dirty,
                       dirty_account |-> TRUE, err |-> c.err]}
                ELSE {LET st == stats_read(ps, dirty_st, r.stats, order)
                          period_stats ==
                              calculate_period_stats(r.portfolio.cash, st[1])
                          defaults ==
                              Update(before,
                                     account_defaults_from_cushion(
                                         r.portfolio, c.value, period_stats))
                      IN  [account |-> Update(defaults, overrides),
                           portfolio |-> r.portfolio, stats |-> st,
                           dirty_portfolio |-> r.dirty,
                           dirty_account |-> FALSE, err |-> "ok"]
                      : order \in IterationOrders(ps)}
            : c \in CushionOutcomes(r.portfolio)}
        : r \in PortfolioReads(pf, ps, payout, dirty_pf, dirty_st, cache)}

\* the property Ledger.account
AccountRead ==
    \E r \in AccountReads(account, account_overrides, dirty_account,
                          portfolio, positions, payout_last_sale_prices,
                          dirty_portfolio, dirty_stats, stats_cache) :
        /\ account' = r.account
        /\ dirty_account' = r.dirty_account
        /\ portfolio' = r.portfolio
        /\ stats_cache' = r.stats
        /\ dirty_portfolio' = r.dirty_portfolio
        /\ last' = [NoOp EXCEPT !.op = "account", !.err = r.err,
                                !.cash_before = portfolio.cash,
                                !.was_dirty = dirty_account,
                                !.amounts_before = Amounts(positions)]
        /\ hist' = HistoryAfterRead(dirty_portfolio, r.dirty_portfolio,
                                    r.portfolio)
        /\ UNCHANGED <<positions, unpaid_dividends, unpaid_stock_dividends,
                       dirty_stats, portfolio_dirty_attr,
                       payout_last_sale_prices, journalVars, returnsVars,
                       account_overrides>>

\* Ledger.override_account_fields: kwargs maps each supplied field to its
\* value
OverrideAccountFields(kwargs) ==
    /\ dirty_account' = TRUE
    /\ account_overrides' = kwargs
    /\ last' = [NoOp EXCEPT !.op = "override_account_fields",
                            !.cash_before = portfolio.cash,
                            !.was_dirty = dirty_account,
                            !.amounts_before = Amounts(positions)]
    /\ hist' = [hist EXCEPT
                  !.supplied = IF DOMAIN kwargs = {} THEN EmptyDict
                               ELSE Update(@, kwargs)]
    /\ UNCHANGED <<trackerVars, dirty_portfolio, portfolio_dirty_attr,
                   portfolio, payout_last_sale_prices, journalVars,
                   returnsVars, account>>

\* a call of Ledger.calculate_period_stats
CalculatePeriodStats ==
    \E order \in IterationOrders(positions) :
        LET st == stats_read(positions, dirty_stats, stats_cache, order)
        IN  /\ stats_cache' = st
            /\ last' = [NoOp EXCEPT
                          !.op = "calculate_period_stats",
                          !.cash_before = portfolio.cash,
                          !.was_dirty = dirty_portfolio,
                          !.amounts_before = Amounts(positions),
                          !.result = calculate_period_stats(portfolio.cash,
                                                            st[1])]
            /\ UNCHANGED <<positions, unpaid_dividends,
                           unpaid_stock_dividends, dirty_stats,
                           dirty_portfolio, dirty_account,
                           portfolio_dirty_attr, portfolio,
                           payout_last_sale_prices, journalVars, returnsVars,
                           accountVars, hist>>

----------------------------------------------------------------------------
(* PositionTracker: its methods called on the book directly *)

ledgerVars == <<dirty_portfolio, dirty_account, portfolio_dirty_attr,
                portfolio, payout_last_sale_prices, journalVars, returnsVars,
                accountVars>>

BookLast(opname) ==
    [NoOp EXCEPT !.op = opname, !.cash_before = portfolio.cash,
                 !.was_dirty = dirty_portfolio,
                 !.amounts_before = Amounts(positions)]

ExecuteTransaction(asset, amount, price) ==
    /\ positions' = execute_transaction(positions, asset, amount, price)
    /\ dirty_stats' = TRUE
    /\ last' = [BookLast("execute_transaction") EXCEPT
                    !.asset = asset, !.amount = amount, !.price = price,
                    !.held_before = Amounts(positions)[asset]]
    /\ hist' = [hist EXCEPT !.net_qty[asset] = @ + amount]
    /\ UNCHANGED <<unpaid_dividends, unpaid_stock_dividends, stats_cache,
                   ledgerVars>>

UpdatePosition(asset, amount, last_sale_price, cost_basis) ==
    /\ positions' = update_position(positions, asset, amount, last_sale_price,
                                    cost_basis)
    /\ dirty_stats' = TRUE
    /\ last' = [BookLast("update_position") EXCEPT !.asset = asset]
    /\ UNCHANGED <<unpaid_dividends, unpaid_stock_dividends, stats_cache,
                   ledgerVars, hist>>

HandleCommission(asset, cost) ==
    /\ positions' = handle_commission(positions, asset, cost)
    /\ dirty_stats' = (dirty_stats \/ asset \in DOMAIN positions)
    /\ last' = [BookLast("handle_commission") EXCEPT !.asset = asset,
                                                     !.amount = cost]
    /\ UNCHANGED <<unpaid_dividends, unpaid_stock_dividends, stats_cache,
                   ledgerVars, hist>>

HandleSplits(splits) ==
    LET r == handle_splits(positions, splits)
    IN  /\ positions' = r.positions
        /\ dirty_stats' = (dirty_stats \/ r.dirty)
        /\ last' = [BookLast("handle_splits") EXCEPT
                        !.ret = r.total_leftover_cash]
        /\ UNCHANGED <<unpaid_dividends, unpaid_stock_dividends, stats_cache,
                       ledgerVars, hist>>

EarnDividends(dividends, stock_dividends) ==
    LET e == earn_dividends(positions, unpaid_dividends,
                            unpaid_stock_dividends, dividends, stock_dividends)
        cash_recorded == RecordedPrefix(positions, dividends)
        stock_recorded == IF cash_recorded = dividends
                          THEN RecordedPrefix(positions, stock_dividends)
                          ELSE <<>>
    IN  /\ unpaid_dividends' = e.unpaid_dividends
        /\ unpaid_stock_dividends' = e.unpaid_stock_dividends
        /\ last' = [BookLast("earn_dividends") EXCEPT !.err = e.err]
        /\ hist' = [hist EXCEPT
                      !.owed = OwedAfter(@, positions, dividends),
                      !.stock_settled =
                          [d \in Sessions |->
                              @[d] /\ d \notin PayDates(stock_recorded)]]
        /\ UNCHANGED <<positions, dirty_stats, stats_cache, ledgerVars>>

PayDividends(next_trading_day) ==
    LET p == pay_dividends(positions, unpaid_dividends,
                           unpaid_stock_dividends, next_trading_day)
    IN  /\ positions' = p.positions
        /\ unpaid_dividends' = p.unpaid_dividends
        /\ unpaid_stock_dividends' = p.unpaid_stock_dividends
        /\ last' = [BookLast("pay_dividends") EXCEPT
                        !.key = next_trading_day,
                        !.ret = R(p.net_cash_payment),
                        !.expected = hist.owed[next_trading_day],
                        !.was_settled = hist.stock_settled[next_trading_day]]
        /\ hist' = [hist EXCEPT !.owed[next_trading_day] = 0,
                                !.stock_settled[next_trading_day] = TRUE]
        /\ UNCHANGED <<dirty_stats, stats_cache, ledgerVars>>

BookSyncLastSalePrices(spot) ==
    /\ positions' = sync_positions(positions, spot)
    /\ dirty_stats' = TRUE
    /\ last' = BookLast("book_sync_last_sale_prices")
    /\ UNCHANGED <<unpaid_dividends, unpaid_stock_dividends, stats_cache,
                   ledgerVars, hist>>

\* the property PositionTracker.stats
StatsRead ==
    \E order \in IterationOrders(positions) :
        /\ stats_cache' = stats_read(positions, dirty_stats, stats_cache, order)
        /\ last' = BookLast("stats")
        /\ UNCHANGED <<positions, unpaid_dividends, unpaid_stock_dividends,
                       dirty_stats, ledgerVars, hist>>

----------------------------------------------------------------------------
(* Inputs of the operations *)

\* what the price source reports at one instant: every asset at its low
\* price, every asset at its high price, or no price at all
SpotMaps ==
    {[a \in Assets |-> Some(PriceLow[a])],
     [a \in Assets |-> Some(PriceHigh[a])],
     [a \in Assets |-> NaN]}

\* split ratios: 2 halves the share count, 1/2 doubles it
SplitRatios == {Frac(2, 1), Frac(1, 2)}

OtherEquity(a) == CHOOSE b \in Equities : b # a

\* a list of at most one cash dividend on one of the assets, paid on one of
\* the dates
CashDividendLists(assets, dates) ==
    {<<>>} \cup {<<[asset |-> a, amount |-> 2, pay_date |-> d]>> :
                    a \in assets, d \in dates}

\* a list of at most one stock dividend, paid in the other equity
StockDividendLists(assets, dates) ==
    {<<>>} \cup {<<[asset |-> a, payment_asset |-> OtherEquity(a),
                    ratio |-> 1, pay_date |-> d]>> :
                    a \in assets, d \in dates}

Tick(bound) == steps < bound /\ steps' = steps + 1

----------------------------------------------------------------------------
(* The ledger as the simulator drives it *)

LedgerAssets == {"A", "F"}

DoProcessTransaction ==
    \E a \in LedgerAssets, amount \in {-1, 1} :
        \E price \in Prices[a] :
            Tick(MaxSteps) /\ ProcessTransaction(a, amount, price, 1)

DoProcessCommission ==
    \E a \in LedgerAssets : Tick(MaxSteps) /\ ProcessCommission(a, 1)

DoProcessSplits ==
    \E ratio \in SplitRatios :
        Tick(MaxSteps) /\ ProcessSplits(<<<<"A", ratio>>>>)

DoProcessDividends ==
    \E next_session \in Sessions :
        \E cash \in CashDividendLists(DOMAIN positions \cap Equities,
                                      {d \in Sessions : d > next_session}),
           stock \in StockDividendLists(DOMAIN positions \cap Equities,
                                        {d \in Sessions : d > next_session}) :
            Tick(MaxSteps) /\ ProcessDividends(next_session, cash, stock)

DoSyncLastSalePrices ==
    \E spot \in SpotMaps : Tick(MaxSteps) /\ SyncLastSalePrices(spot)

DoClosePosition ==
    \E a \in LedgerAssets :
        \E spot \in {NaN, Some(PriceHigh[a])} :
            Tick(MaxSteps) /\ ClosePosition(a, 1, spot)

DoCapitalChange ==
    \E change_amount \in {100} : Tick(MaxSteps) /\ CapitalChange(change_amount)

DoEndOfSession ==
    \E session \in Sessions : Tick(MaxSteps) /\ EndOfSession(session)

DoPortfolioRead == Tick(MaxSteps) /\ PortfolioRead

Next ==
    \/ DoProcessTransaction
    \/ DoProcessCommission
    \/ DoProcessSplits
    \/ DoProcessDividends
    \/ DoSyncLastSalePrices
    \/ DoClosePosition
    \/ DoCapitalChange
    \/ DoEndOfSession
    \/ DoPortfolioRead

Spec == Init /\ [][Next]_vars

----------------------------------------------------------------------------
(* The order journal alone *)

DoProcessOrder ==
    \E id \in OrderIds, dt \in Dts, filled \in {0, 1} :
        Tick(MaxOrderSteps) /\ ProcessOrder(id, dt, filled)

DoOrdersEndOfSession ==
    \E session \in Sessions : Tick(MaxOrderSteps) /\ EndOfSession(session)

NextOrders ==
    \/ DoProcessOrder
    \/ DoOrdersEndOfSession

SpecOrders == Init /\ [][NextOrders]_vars

----------------------------------------------------------------------------
(* Transactions alone, through the book and through the ledger *)

DoTxnExecute ==
    \E a \in LedgerAssets, amount \in TxnAmounts :
        Tick(MaxTxnSteps) /\ ExecuteTransaction(a, amount, PriceLow[a])

DoTxnProcess ==
    \E a \in LedgerAssets, amount \in TxnAmounts :
        Tick(MaxTxnSteps) /\ ProcessTransaction(a, amount, PriceLow[a], 1)

NextTxn ==
    \/ DoTxnExecute
    \/ DoTxnProcess

SpecTxn == Init /\ [][NextTxn]_vars

----------------------------------------------------------------------------
(* The dividend cycle on the position book *)

DoDivExecute ==
    \E a \in Equities, amount \in {-1, 1} :
        Tick(MaxDividendSteps) /\ ExecuteTransaction(a, amount, PriceLow[a])

DoDivEarn ==
    \E cash \in CashDividendLists({"A"}, Sessions),
       stock \in StockDividendLists({"A"}, Sessions) :
        Tick(MaxDividendSteps) /\ EarnDividends(cash, stock)

DoDivPay ==
    \E day \in Sessions : Tick(MaxDividendSteps) /\ PayDividends(day)

NextDividends ==
    \/ DoDivExecute
    \/ DoDivEarn
    \/ DoDivPay

SpecDividends == Init /\ [][NextDividends]_vars

----------------------------------------------------------------------------
(* Every method of the position book *)

DoBookExecute ==
    \E a \in Equities, amount \in {-1, 1} :
        Tick(MaxBookSteps) /\ ExecuteTransaction(a, amount, PriceLow[a])

DoBookUpdatePosition ==
    \E fields \in {<<Some(0), None>>, <<Some(3), None>>,
                   <<None, Some(PriceHigh["A"])>>} :
        Tick(MaxBookSteps) /\ UpdatePosition("A", fields[1], fields[2], None)

DoBookCommission == Tick(MaxBookSteps) /\ HandleCommission("A", 1)

DoBookSplits ==
    \E ratio \in SplitRatios :
        Tick(MaxBookSteps) /\ HandleSplits(<<<<"A", ratio>>>>)

DoBookEarn ==
    \E cash \in CashDividendLists({"A"}, {1}),
       stock \in StockDividendLists({"A"}, {1}) :
        Tick(MaxBookSteps) /\ EarnDividends(cash, stock)

DoBookPay == Tick(MaxBookSteps) /\ PayDividends(1)

DoBookSync ==
    \E spot \in SpotMaps : Tick(MaxBookSteps) /\ BookSyncLastSalePrices(spot)

DoBookStats == Tick(MaxBookSteps) /\ StatsRead

NextBook ==
    \/ DoBookExecute
    \/ DoBookUpdatePosition
    \/ DoBookCommission
    \/ DoBookSplits
    \/ DoBookEarn
    \/ DoBookPay
    \/ DoBookSync
    \/ DoBookStats

SpecBook == Init /\ [][NextBook]_vars

----------------------------------------------------------------------------
(* The account and the period statistics *)

\* the keyword arguments a caller passes to override_account_fields
OverrideKwargs ==
    {EmptyDict,
     [f \in {"settled_cash"} |-> R(7)],
     [f \in {"settled_cash"} |-> R(8)],
     [f \in {"buying_power"} |-> R(7)]}

DoAcctTransaction ==
    \E a \in LedgerAssets, amount \in {-1, 1} :
        Tick(MaxAccountSteps) /\ ProcessTransaction(a, amount, PriceLow[a], 1)

DoAcctCommission ==
    \E cost \in {1000} : Tick(MaxAccountSteps) /\ ProcessCommission("A", cost)

DoAcctSync ==
    Tick(MaxAccountSteps)
    /\ SyncLastSalePrices([a \in Assets |-> Some(PriceHigh[a])])

DoAcctCapitalChange ==
    \E change_amount \in {100} :
        Tick(MaxAccountSteps) /\ CapitalChange(change_amount)

DoAcctOverride ==
    \E kwargs \in OverrideKwargs :
        Tick(MaxAccountSteps) /\ OverrideAccountFields(kwargs)

DoAcctPortfolioRead == Tick(MaxAccountSteps) /\ PortfolioRead

DoAcctRead == Tick(MaxAccountSteps) /\ AccountRead

DoAcctPeriodStats == Tick(MaxAccountSteps) /\ CalculatePeriodStats

NextAccount ==
    \/ DoAcctTransaction
    \/ DoAcctCommission
    \/ DoAcctSync
    \/ DoAcctCapitalChange
    \/ DoAcctOverride
    \/ DoAcctPortfolioRead
    \/ DoAcctRead
    \/ DoAcctPeriodStats

SpecAccount == Init /\ [][NextAccount]_vars

----------------------------------------------------------------------------
(* Returns: an account of ordinary instruments whose value is charged away *)

DoRetTransaction ==
    \E amount \in {-1, 1}, price \in Prices["A"] :
        Tick(MaxReturnSteps) /\ ProcessTransaction("A", amount, price, 1)

DoRetCommission ==
    \E cost \in {500, 1000} :
        Tick(MaxReturnSteps) /\ ProcessCommission("A", cost)

DoRetPortfolioRead == Tick(MaxReturnSteps) /\ PortfolioRead

\* the sessions are closed in calendar order, each once
DoRetEndOfSession ==
    \E session \in Sessions :
        /\ session = Len(hist.closed) + 1
        /\ Tick(MaxReturnSteps)
        /\ EndOfSession(session)

NextReturns ==
    \/ DoRetTransaction
    \/ DoRetCommission
    \/ DoRetPortfolioRead
    \/ DoRetEndOfSession

SpecReturns == Init /\ [][NextReturns]_vars

----------------------------------------------------------------------------
(* The journals of a session and their queries *)

OptionalDts == {None} \cup {Some(dt) : dt \in Dts}

DoJrnTransaction ==
    \E a \in LedgerAssets, dt \in Dts :
        Tick(MaxJournalSteps) /\ ProcessTransaction(a, 1, PriceLow[a], dt)

DoJrnClosePosition ==
    \E a \in LedgerAssets, dt \in Dts :
        Tick(MaxJournalSteps) /\ ClosePosition(a, dt, NaN)

DoJrnOrder ==
    \E id \in OrderIds, dt \in Dts :
        Tick(MaxJournalSteps) /\ ProcessOrder(id, dt, 0)

DoJrnEndOfSession ==
    \E session \in Sessions :
        /\ session = Len(hist.closed) + 1
        /\ Tick(MaxJournalSteps)
        /\ EndOfSession(session)

DoJrnTransactions ==
    \E dt \in OptionalDts : Tick(MaxJournalSteps) /\ Transactions(dt)

DoJrnOrders ==
    \E dt \in OptionalDts : Tick(MaxJournalSteps) /\ Orders(dt)

NextJournal ==
    \/ DoJrnTransaction
    \/ DoJrnClosePosition
    \/ DoJrnOrder
    \/ DoJrnEndOfSession
    \/ DoJrnTransactions
    \/ DoJrnOrders

SpecJournal == Init /\ [][NextJournal]_vars

----------------------------------------------------------------------------
(* Dividends of the ledger: earned at the ex-date, paid at the pay-date *)

DoPayTransaction ==
    \E amount \in {-1, 1} :
        Tick(MaxPayoutSteps) /\ ProcessTransaction("A", amount, PriceLow["A"], 1)

DoPayDividends ==
    \E next_session \in Sessions :
        \E cash \in CashDividendLists(DOMAIN positions \cap Equities,
                                      {d \in Sessions : d >= next_session}),
           stock \in StockDividendLists(DOMAIN positions \cap Equities,
                                        {d \in Sessions : d >= next_session}) :
            Tick(MaxPayoutSteps) /\ ProcessDividends(next_session, cash, stock)

NextPayout ==
    \/ DoPayTransaction
    \/ DoPayDividends

SpecPayout == Init /\ [][NextPayout]_vars

----------------------------------------------------------------------------
(* Splits of the ledger, on held and on not held instruments *)

OneSplit == {<<<<a, ratio>>>> : a \in Equities, ratio \in SplitRatios}

\* one split, or a split of each of two instruments
SplitLists ==
    OneSplit \cup {s \o t : s \in {u \in OneSplit : u[1][1] = "A"},
                            t \in {u \in OneSplit : u[1][1] = "B"}}

DoSplTransaction ==
    \E a \in Equities, amount \in {-1, 1} :
        Tick(MaxSplitSteps) /\ ProcessTransaction(a, amount, PriceLow[a], 1)

DoSplSplits ==
    \E splits \in SplitLists : Tick(MaxSplitSteps) /\ ProcessSplits(splits)

DoSplPortfolioRead == Tick(MaxSplitSteps) /\ PortfolioRead

DoSplAccountRead == Tick(MaxSplitSteps) /\ AccountRead

NextSplits ==
    \/ DoSplTransaction
    \/ DoSplSplits
    \/ DoSplPortfolioRead
    \/ DoSplAccountRead

SpecSplits == Init /\ [][NextSplits]_vars

----------------------------------------------------------------------------
(* Every operation of the ledger, each with one or two inputs *)

NextFlags ==
    \/ \E a \in LedgerAssets, amount \in {-1, 1} :
          Tick(MaxFlagSteps) /\ ProcessTransaction(a, amount, PriceLow[a], 1)
    \/ Tick(MaxFlagSteps) /\ ProcessCommission("A", 1)
    \/ Tick(MaxFlagSteps) /\ ProcessSplits(<<<<"A", Frac(2, 1)>>>>)
    \/ \E cash \in CashDividendLists(DOMAIN positions \cap {"A"}, {1}) :
          Tick(MaxFlagSteps) /\ ProcessDividends(1, cash, <<>>)
    \/ Tick(MaxFlagSteps)
          /\ SyncLastSalePrices([a \in Assets |-> Some(PriceHigh[a])])
    \/ Tick(MaxFlagSteps) /\ ClosePosition("A", 1, NaN)
    \/ Tick(MaxFlagSteps) /\ CapitalChange(100)
    \/ Tick(MaxFlagSteps) /\ EndOfSession(1)
    \/ Tick(MaxFlagSteps) /\ ProcessOrder(1, 1, 0)
    \/ Tick(MaxFlagSteps)
          /\ OverrideAccountFields([f \in {"settled_cash"} |-> R(7)])
    \/ Tick(MaxFlagSteps) /\ CalculatePeriodStats
    \/ Tick(MaxFlagSteps) /\ Transactions(None)
    \/ Tick(MaxFlagSteps) /\ PortfolioRead
    \/ Tick(MaxFlagSteps) /\ AccountRead

SpecFlags == Init /\ [][NextFlags]_vars

----------------------------------------------------------------------------
(* Reference values the claims compare the ledger with *)

RECURSIVE SumOver(_, _)
SumOver(S, f) ==
    IF S = {} THEN 0
    ELSE LET x == CHOOSE y \in S : TRUE
         IN  f[x] + SumOver(S \ {x}, f)

\* sum over the held ordinary positions of amount * last_sale_price
HeldValue ==
    SumOver(DOMAIN positions \cap Equities,
            [a \in Equities |->
                IF a \in DOMAIN positions
                THEN positions[a].amount * positions[a].last_sale_price
                ELSE 0])

\* sum over the instruments with a reference price of
\* multiplier * held amount * (last_sale_price - reference price)
OutstandingPayout ==
    SumOver(DOMAIN payout_last_sale_prices,
            [a \in Futures |->
                IF a \in DOMAIN payout_last_sale_prices /\ a \in DOMAIN positions
                THEN multiplier[a] * positions[a].amount
                     * (positions[a].last_sale_price
                        - payout_last_sale_prices[a])
                ELSE 0])

CompletedRead == last.op = "portfolio" /\ last.err = "ok"

IsTransaction == last.op \in {"process_transaction", "close_position"}

----------------------------------------------------------------------------
(* The claims *)

\* C1: a portfolio read that follows any sequence of process_transaction,
\* process_commission, process_splits, process_dividends,
\* sync_last_sale_prices and close_position returns the positions_value,
\* cash and portfolio_value computed from the book and the cash flow as they
\* are at the read; no read returns a snapshot older than a mutation.
\* (Stated here for the runs in which no split left zero cash.)
C1_ReadIsCurrent ==
    (CompletedRead /\ hist.capital_changes = 0 /\ hist.silent_splits = 0) =>
        /\ portfolio.positions_value = R(HeldValue)
        /\ portfolio.cash =
              RAdd(RAdd(portfolio.starting_cash, portfolio.cash_flow),
                   R(OutstandingPayout))
        /\ portfolio.portfolio_value =
              RAdd(portfolio.cash, portfolio.positions_value)

\* C2: the first transaction in a leverage-bearing instrument records its
\* price as the reference price with no cash effect; every later one
\* realizes (new price - reference price) * multiplier * amount held before
\* it into the cash the next portfolio read reports, and makes its price the
\* reference price.
C2_MarkToMarketRealized ==
    /\ (IsTransaction /\ IsFuture(last.asset) /\ ~last.had_ref) =>
          /\ last.asset \in DOMAIN payout_last_sale_prices
          /\ payout_last_sale_prices[last.asset] = last.price
          /\ portfolio.cash = last.cash_before
    /\ (CompletedRead /\ last.was_dirty /\ hist.capital_changes = 0) =>
          portfolio.cash =
              RAdd(RAdd(portfolio.starting_cash, portfolio.cash_flow),
                   R(hist.mtm_due + OutstandingPayout))

\* C3: after every process_transaction a leverage-bearing instrument has a
\* reference price exactly when it has a non-zero position in the book.
C3_ReferencePriceIffHeld ==
    IsTransaction =>
        \A f \in Futures :
            (f \in DOMAIN payout_last_sale_prices)
            <=> (f \in DOMAIN positions /\ positions[f].amount # 0)

\* C4: each order id has exactly one entry in the latest-version journal,
\* and after process_order for an id that was already recorded, with the
\* same modification timestamp or a new one, that entry holds the new
\* version and is the last entry of the journal orders() returns.
C4_UpdatedOrderIsLast ==
    /\ \A i, j \in DOMAIN orders_by_id :
          orders_by_id[i].id = orders_by_id[j].id => i = j
    /\ (last.op = "process_order" /\ last.had_ref) =>
          orders_by_id[Len(orders_by_id)] =
              OrderDict(last.key, last.amount, last.price)

\* C5: a stock-dividend obligation is delivered once: after the first
\* pay_dividends(D) that follows its earning, any further pay_dividends(D)
\* leaves every position amount unchanged.
C5_StockDividendDeliveredOnce ==
    (last.op = "pay_dividends" /\ last.was_settled) =>
        Amounts(positions) = last.amounts_before

\* C6: pay_dividends on a pay-date returns the sum, over the cash dividends
\* earned for that date and not yet paid, of amount held when earned times
\* the per-share amount, whatever transactions came in between, and drops
\* them: a second call for the date returns zero.
C6_CashDividendPaidOnce ==
    last.op = "pay_dividends" =>
        /\ last.ret = R(last.expected)
        /\ last.key \notin DOMAIN unpaid_dividends

\* a payment of what was earned on an amount that is no longer the amount held
C6_Witness ==
    /\ last.op = "pay_dividends"
    /\ last.expected # 0
    /\ "A" \notin DOMAIN positions
    /\ last.ret = R(last.expected)

\* C7: starting from an empty book, after each execute_transaction or
\* process_transaction an instrument has a Position exactly when the sum of
\* its signed transaction amounts is not zero.
C7_HeldIffNetQuantityNonZero ==
    \A a \in Assets : (a \in DOMAIN positions) <=> (hist.net_qty[a] # 0)

\* a position of two units closed by one transaction while another
\* instrument stays held
C7_Witness ==
    /\ last.op \in {"execute_transaction", "process_transaction"}
    /\ Abs(last.held_before) = 2
    /\ Abs(last.amount) = 2
    /\ hist.net_qty[last.asset] = 0
    /\ last.asset \notin DOMAIN positions
    /\ DOMAIN positions # {}

\* C8 as claimed: after every operation no Position in the book has
\* amount = 0, also after handle_splits, update_position and pay_dividends.
C8_NoEmptyPosition ==
    \A a \in DOMAIN positions : positions[a].amount # 0

\* C8 as amended: execute_transaction does not leave the Position of the
\* instrument it transacted in the book with amount = 0 (handle_splits,
\* update_position and pay_dividends may leave one).
C8_NoEmptyPositionAfterTransaction ==
    last.op = "execute_transaction" =>
        (last.asset \in DOMAIN positions => positions[last.asset].amount # 0)

\* execute_transaction has closed a position while the book holds the empty
\* Position of another instrument
C8_Witness ==
    /\ last.op = "execute_transaction"
    /\ last.held_before # 0
    /\ last.asset \notin DOMAIN positions
    /\ \E a \in DOMAIN positions : positions[a].amount = 0

\* C9: with ordinary instruments only, at a portfolio read cash is
\* starting_cash - sum(price * amount) - commissions + cash dividends paid +
\* positive split leftovers, positions_value is the sum of amount *
\* last_sale_price over the held positions, and portfolio_value is their
\* sum.  (Stated here for the runs in which no split left zero cash.)
C9_CashConservation ==
    (CompletedRead /\ hist.capital_changes = 0 /\ hist.futures_txns = 0
     /\ hist.silent_splits = 0) =>
        /\ portfolio.cash =
              RAdd(RAdd(RAdd(portfolio.starting_cash, hist.txn_cash),
                        R(hist.dividends_paid - hist.commissions)),
                   hist.split_leftover)
        /\ portfolio.positions_value = R(HeldValue)
        /\ portfolio.portfolio_value = RAdd(portfolio.cash, R(HeldValue))

\* C10: with a reference price recorded, a recomputing portfolio read
\* completes and sets cash to starting_cash + cash_flow + the sum over the
\* instruments with a reference price of multiplier * held amount *
\* (last_sale_price - reference price).
C10_ReadSettlesPayout ==
    (last.op = "portfolio" /\ last.was_dirty
     /\ DOMAIN payout_last_sale_prices # {}) =>
        /\ last.err = "ok"
        /\ portfolio.cash =
              RAdd(RAdd(portfolio.starting_cash, portfolio.cash_flow),
                   R(OutstandingPayout))

\* the default of an account field computed from a portfolio
AccountDefault(pf, f) ==
    IF f \in {"settled_cash", "regt_equity", "available_funds",
              "excess_liquidity"} THEN pf.cash
    ELSE IF f = "equity_with_loan" THEN pf.portfolio_value
    ELSE RSub(pf.portfolio_value, pf.cash)

CompletedAccountRead == last.op = "account" /\ last.err = "ok"

\* C11: at every read of account each field that is not overridden equals
\* its default evaluated on the portfolio as it is at that read:
\* settled_cash, regt_equity, available_funds and excess_liquidity are
\* portfolio.cash, equity_with_loan is portfolio.portfolio_value,
\* total_positions_value is portfolio_value - cash, and net_liquidation and
\* the leverages are those of calculate_period_stats; also after
\* capital_change and sync_last_sale_prices.
C11_AccountIsCurrent ==
    CompletedAccountRead =>
        /\ \A f \in {"settled_cash", "regt_equity", "available_funds",
                      "excess_liquidity", "equity_with_loan",
                      "total_positions_value"} :
              f \notin (DOMAIN account_overrides \cup DOMAIN hist.supplied) =>
                  account[f] = AccountDefault(portfolio, f)
        /\ "net_liquidation" \notin DOMAIN account_overrides =>
              \E order \in IterationOrders(positions) :
                  LET p == calculate_period_stats(
                               portfolio.cash,
                               calculate_stats(positions, order))
                  IN  /\ account["net_liquidation"] = p.net_liquidation
                      /\ account["gross_leverage"] = p.gross_leverage
                      /\ account["net_leverage"] = p.net_leverage

\* C12: once a field has been supplied to override_account_fields, every
\* later read of account returns the supplied value for it, whatever
\* mutations, recomputations and calls supplying only other fields come in
\* between, until the field is supplied again or the overrides are reset
\* (a call that supplies no field).
C12_OverridePersists ==
    CompletedAccountRead =>
        \A f \in DOMAIN hist.supplied : account[f] = hist.supplied[f]

\* C13: capital_change(amount) increases the portfolio's cash and
\* portfolio_value by exactly amount and leaves pnl, returns, cash_flow,
\* starting_cash, the position book and both journals unchanged.
C13_CapitalChangeFrame ==
    [][last'.op = "capital_change" =>
          /\ portfolio'.cash = RAdd(portfolio.cash, R(last'.amount))
          /\ portfolio'.portfolio_value =
                RAdd(portfolio.portfolio_value, R(last'.amount))
          /\ portfolio'.pnl = portfolio.pnl
          /\ portfolio'.returns = portfolio.returns
          /\ portfolio'.cash_flow = portfolio.cash_flow
          /\ portfolio'.starting_cash = portfolio.starting_cash
          /\ positions' = positions
          /\ UNCHANGED journalVars]_vars

\* a capital change applied while a position is held, a transaction is
\* journaled and the portfolio is waiting to be recomputed
C13_Witness ==
    /\ last.op = "capital_change"
    /\ last.was_dirty
    /\ DOMAIN positions # {}
    /\ DOMAIN processed_transactions # {}
    /\ portfolio.cash = RAdd(last.cash_before, R(last.amount))

\* the accumulated returns are those of the value just computed against the
\* value the ledger started with
ReturnsFollowValue ==
    RAdd(R(1), portfolio.returns) =
        RDiv(portfolio.portfolio_value, portfolio.starting_cash)

\* C14 as claimed: with no capital change, when the portfolio value goes
\* from V0 (the value returns are accumulated from, not zero) through V1 to
\* V2 over successive recomputations, the accumulated returns after the
\* last one are V2/V0 - 1 for every V1, V1 = 0 included.
C14_ReturnsPathIndependent ==
    (CompletedRead /\ last.was_dirty /\ hist.capital_changes = 0) =>
        ReturnsFollowValue

\* C14 as amended: the same, provided no earlier recomputation found a
\* portfolio value of zero.
C14_ReturnsPathIndependentNonZero ==
    (CompletedRead /\ last.was_dirty /\ hist.capital_changes = 0
     /\ ~last.zero_before) =>
        ReturnsFollowValue

\* the value -500 computed after the values 1000 and 500
C14_Witness ==
    /\ CompletedRead /\ last.was_dirty /\ ~last.zero_before
    /\ portfolio.starting_cash = R(1000)
    /\ last.cash_before = R(500)
    /\ portfolio.portfolio_value = R(-500)
    /\ portfolio.returns = Frac(-3, 2)

\* the records of a log that carry the timestamp dt, in the order logged
WithDt(log, dt) == SelectSeq(log, LAMBDA d : d.dt = dt)

\* the latest version of each order of a log, in the order of its last
\* processing
RECURSIVE LatestVersions(_)
LatestVersions(log) ==
    IF log = <<>> THEN <<>>
    ELSE IF \E i \in DOMAIN Tail(log) : Tail(log)[i].id = Head(log).id
         THEN LatestVersions(Tail(log))
         ELSE <<Head(log)>> \o LatestVersions(Tail(log))

RECURSIVE CompoundedDaily(_)
CompoundedDaily(sessions) ==
    IF sessions = <<>> THEN R(1)
    ELSE RMul(RAdd(R(1), daily_returns[Head(sessions)][1]),
              CompoundedDaily(Tail(sessions)))

ClosedSessions == {hist.closed[i] : i \in DOMAIN hist.closed}

\* C16: daily_returns[s] is defined exactly when end_of_session(s) has been
\* called; the call records (1 + cumulative returns of the recomputed
\* portfolio) / (1 + cumulative returns at the previous close) - 1 and
\* leaves the other sessions alone, so that with every session closed once
\* the product of 1 + daily return over the closed sessions is 1 + the
\* cumulative returns at the last close.
C16_DailyReturnsRecorded ==
    /\ \A s \in Sessions : (daily_returns[s] # NaN) <=> (s \in ClosedSessions)
    /\ last.op = "end_of_session" =>
          previous_total_returns = portfolio.returns
    /\ (Cardinality(ClosedSessions) = Len(hist.closed)
        /\ \A s \in ClosedSessions : daily_returns[s] # NaN) =>
          CompoundedDaily(hist.closed) = RAdd(R(1), previous_total_returns)

\* C17: calculate_period_stats returns net_liquidation = cash + long_value +
\* short_value, and gross and net leverage = exposure / net_liquidation,
\* or positive infinity whenever net_liquidation = 0, whatever the
\* exposures, zero and negative ones included.
C17_PeriodStats ==
    last.op = "calculate_period_stats" =>
        LET net_liquidation == RAdd(portfolio.cash, R(HeldValue))
        IN  /\ last.result.net_liquidation = net_liquidation
            /\ \E order \in IterationOrders(positions) :
                  LET st == calculate_stats(positions, order)
                  IN  IF RIsZero(net_liquidation)
                      THEN /\ last.result.gross_leverage = Inf
                           /\ last.result.net_leverage = Inf
                      ELSE /\ last.result.gross_leverage =
                                RDiv(R(st.gross_exposure), net_liquidation)
                           /\ last.result.net_leverage =
                                RDiv(R(st.net_exposure), net_liquidation)

\* a net liquidation of zero with a short position: negative net exposure
C17_Witness ==
    /\ last.op = "calculate_period_stats"
    /\ last.result.net_liquidation = Zero
    /\ Amounts(positions)["A"] = -1
    /\ last.result.net_leverage = Inf
    /\ last.result.gross_leverage = Inf

\* the list journaled for a timestamp, empty when there is none
JournalAt(journal, dt) == IF dt \in DOMAIN journal THEN journal[dt] ELSE <<>>

\* C18: close_position on an instrument that is not held changes nothing;
\* on a held instrument it submits one transaction of minus the held
\* amount, priced at the spot price or, when that is undefined, at the
\* position's last_sale_price, after which the instrument is absent from
\* the book and the transaction is in the journal.
C18_ClosePosition ==
    [][/\ last'.op = "close_position_none" =>
            /\ last'.asset \notin DOMAIN positions
            /\ UNCHANGED <<positions, portfolio, journalVars,
                           dirty_portfolio, dirty_account, dirty_stats,
                           payout_last_sale_prices>>
       /\ last'.op = "close_position" =>
            LET a == last'.asset
                closing ==
                    TransactionDict(
                        a, -1 * positions[a].amount,
                        IF last'.spot = NaN THEN positions[a].last_sale_price
                        ELSE last'.spot[1],
                        last'.key)
            IN  /\ a \in DOMAIN positions
                /\ a \notin DOMAIN positions'
                /\ JournalAt(processed_transactions', last'.key) =
                      Append(JournalAt(processed_transactions, last'.key),
                             closing)]_vars

\* exposure and value of the position held in an asset
ExposureOf(a) ==
    positions[a].amount * positions[a].last_sale_price
        * (IF IsFuture(a) THEN multiplier[a] ELSE 1)

ValueOf(a) == IF IsFuture(a) THEN 0 ELSE ExposureOf(a)

Longs == {a \in DOMAIN positions : ExposureOf(a) > 0}

Shorts == {a \in DOMAIN positions : ExposureOf(a) < 0}

Exposures == [a \in Assets |-> IF a \in DOMAIN positions THEN ExposureOf(a) ELSE 0]

Values == [a \in Assets |-> IF a \in DOMAIN positions THEN ValueOf(a) ELSE 0]

\* the aggregation of the held positions
ReferenceStats ==
    [long_exposure |-> SumOver(Longs, Exposures),
     short_exposure |-> SumOver(Shorts, Exposures),
     long_value |-> SumOver(Longs, Values),
     short_value |-> SumOver(Shorts, Values),
     longs_count |-> Cardinality(Longs),
     shorts_count |-> Cardinality(Shorts),
     net_value |-> SumOver(DOMAIN positions, Values),
     gross_value |-> SumOver(Longs, Values) - SumOver(Shorts, Values),
     gross_exposure |->
        SumOver(Longs, Exposures) - SumOver(Shorts, Exposures),
     net_exposure |->
        SumOver(Longs, Exposures) + SumOver(Shorts, Exposures)]

\* C19: stats is the aggregation over all held positions: long_exposure the
\* sum of the positive exposures, short_exposure the sum of the negative
\* ones, the values and counts likewise, net_value the sum of the values,
\* gross_exposure = long_exposure - short_exposure and net_exposure =
\* long_exposure + short_exposure; also with two or more long positions.
C19_StatsAggregate ==
    last.op = "stats" => stats_cache = Some(ReferenceStats)

\* the cash owed by the obligations pending for a pay-date
PendingFor(unpaid, d) ==
    IF d \in DOMAIN unpaid THEN SumAmounts(unpaid[d]) ELSE 0

\* C20: a cash dividend obligation earned for pay-date D is added to the
\* ledger cash flow by the process_dividends call whose next_session is D and
\* by no other call: the call adds to cash_flow exactly what is owed for its
\* next_session, the obligations of every other date stay pending, no other
\* operation touches the obligations, and the payment happens also when the
\* book holds no instrument any more.
C20_PaidAtPayDateOnly ==
    [][IF last'.op = "process_dividends"
       THEN /\ portfolio'.cash_flow =
                   RAdd(portfolio.cash_flow, R(last'.expected))
            /\ PendingFor(unpaid_dividends', last'.key) = 0
            /\ \A d \in Sessions \ {last'.key} :
                   /\ PendingFor(unpaid_dividends', d) = hist'.owed[d]
                   /\ d \in DOMAIN unpaid_dividends =>
                          /\ d \in DOMAIN unpaid_dividends'
                          /\ SubSeq(unpaid_dividends'[d], 1,
                                    Len(unpaid_dividends[d])) =
                                 unpaid_dividends[d]
       ELSE unpaid_dividends' = unpaid_dividends]_vars

\* a dividend paid at its pay-date after the position was closed
C20_Witness ==
    /\ last.op = "process_dividends"
    /\ last.key = 2
    /\ last.expected # 0
    /\ last.ret = R(last.expected)
    /\ positions = EmptyDict
    /\ portfolio.cash_flow = R(last.expected)

\* the instruments a list of splits names
SplitAssets(splits) == {splits[i][1] : i \in DOMAIN splits}

\* C21: process_splits adds the total leftover cash returned by the position
\* book to cash_flow and marks the portfolio dirty exactly when that total is
\* positive; otherwise cash_flow and both dirty flags of the ledger are left
\* as they were. Splits on instruments that are not held return no leftover
\* cash and leave the position book unchanged.
C21_ProcessSplits ==
    [][last'.op = "process_splits" =>
        LET total == last'.ret
            asked == SplitAssets(last'.result)
        IN  /\ IF RPos(total)
               THEN /\ portfolio'.cash_flow =
                           RAdd(portfolio.cash_flow, total)
                    /\ dirty_portfolio'
                    /\ dirty_account'
               ELSE /\ portfolio'.cash_flow = portfolio.cash_flow
                    /\ dirty_portfolio' = dirty_portfolio
                    /\ dirty_account' = dirty_account
            /\ asked \cap DOMAIN positions = {} =>
                   /\ total = Zero
                   /\ positions' = positions
                   /\ dirty_stats' = dirty_stats
            /\ \A a \in Assets \ (asked \cap DOMAIN positions) :
                   /\ (a \in DOMAIN positions') = (a \in DOMAIN positions)
                   /\ a \in DOMAIN positions => positions'[a] = positions[a]]_vars

\* a split of a held instrument returned leftover cash to a ledger whose
\* portfolio was clean
C21_Witness ==
    /\ last.op = "process_splits"
    /\ RPos(last.ret)
    /\ ~last.was_dirty
    /\ dirty_portfolio
    /\ dirty_account
    /\ portfolio.cash_flow = RAdd(hist.txn_cash, last.ret)

\* C22: in every reachable state a dirty portfolio implies a dirty account:
\* every operation that sets the portfolio flag also sets the account flag,
\* a portfolio read clears only the portfolio flag, and an account read,
\* which first refreshes the portfolio, is the only operation that clears
\* the account flag.
C22_DirtyCoupling ==
    /\ [](dirty_portfolio => dirty_account)
    /\ [][/\ (~dirty_portfolio /\ dirty_portfolio') => dirty_account'
          /\ last'.op = "portfolio" =>
                 /\ dirty_account' = dirty_account
                 /\ last'.err = "ok" => ~dirty_portfolio'
          /\ (dirty_account /\ ~dirty_account') =>
                 /\ last'.op = "account"
                 /\ ~dirty_portfolio']_vars

\* an account read cleared the account flag and, through its portfolio read,
\* the portfolio flag that a transaction had set
C22_Witness ==
    /\ last.op = "account"
    /\ last.was_dirty
    /\ ~dirty_account
    /\ ~dirty_portfolio
    /\ positions # EmptyDict
    /\ portfolio.positions_value # Zero

\* the fields of the portfolio that a read reports
Reported(pf) ==
    <<pf.cash, pf.positions_value, pf.portfolio_value, pf.pnl, pf.returns>>

\* C23: two consecutive reads of portfolio, with no operation between them,
\* return identical cash, positions_value, portfolio_value, pnl and returns:
\* the second read adds no pnl delta and compounds no returns again, in any
\* state reached by any sequence of operations.
C23_SecondReadIdentical ==
    [][(last.op = "portfolio" /\ last'.op = "portfolio") =>
          Reported(portfolio') = Reported(portfolio)]_vars

\* the second of two consecutive reads, the first of which recomputed a
\* portfolio that a commission had changed
C23_Witness ==
    /\ steps = 3
    /\ last.op = "portfolio"
    /\ ~last.was_dirty
    /\ dirty_account
    /\ hist.closed = <<>>
    /\ hist.commissions = 1
    /\ portfolio.pnl = R(-1)
    /\ portfolio.returns = Frac(-1, 1000)

C25_ValueIsCashPlusPositions ==
    (last.op = "portfolio" /\ last.err = "ok") =>
        portfolio.portfolio_value =
            RAdd(portfolio.cash, portfolio.positions_value)

\* a read of the clean portfolio that a capital change has raised while a
\* position is held
C25_Witness ==
    /\ last.op = "portfolio"
    /\ last.err = "ok"
    /\ ~last.was_dirty
    /\ hist.capital_changes = 100
    /\ portfolio.positions_value = R(10)
    /\ portfolio.cash = R(1090)
    /\ portfolio.portfolio_value = R(1100)

\* the cash that the transactions, commissions, dividends and split leftovers
\* of the run leave of the starting cash
TradedCash ==
    RAdd(RAdd(RAdd(portfolio.starting_cash, hist.txn_cash),
              R(hist.dividends_paid - hist.commissions)),
         hist.split_leftover)

\* C26: a capital change is durable and is not a trading result: at a
\* portfolio read that follows capital_change(a) and further mutating
\* operations, cash and portfolio_value still include a, and pnl is what the
\* same operations give without the capital change.  (Stated for ordinary
\* instruments and runs in which no split left zero cash.)
C26_CapitalChangeDurable ==
    (CompletedRead /\ last.was_dirty /\ hist.capital_changes # 0
     /\ hist.futures_txns = 0 /\ hist.silent_splits = 0) =>
        /\ portfolio.cash = RAdd(TradedCash, R(hist.capital_changes))
        /\ portfolio.portfolio_value =
               RAdd(RAdd(TradedCash, R(hist.capital_changes)), R(HeldValue))
        /\ portfolio.pnl =
               RSub(RAdd(TradedCash, R(HeldValue)), portfolio.starting_cash)

====
